---- MODULE Spec2Model ----
(***************************************************************************)
(* Merkle tree overlay of eth2/utils/merkle_partial: the MerkleTreeOverlay *)
(* implementations for the basic types and for ssz_types::VariableList.    *)
(* A type is a scalar wrapped in zero or more list levels; a caller picks  *)
(* a type and queries height, first_leaf, last_leaf and get_node.          *)
(***************************************************************************)
EXTENDS Integers, Sequences, FiniteSets, TLC

\* ---- bounds of the model ----
MaxCap == 3
MaxDepth == 2
MaxIndex == 64

\* ---- types ----
BasicTypes == {"bool", "u8", "u16", "u32", "u64", "u128", "U256", "usize"}

Caps == 0..MaxCap

RECURSIVE CapSeqs(_)
CapSeqs(d) ==
    IF d = 0 THEN {<<>>}
    ELSE LET S == CapSeqs(d - 1)
         IN S \cup {<<n>> \o s : n \in Caps, s \in {x \in S : Len(x) = d - 1}}

\* caps[1] is the capacity N of the outermost VariableList<T, N>
Types == [elem : BasicTypes, caps : CapSeqs(MaxDepth)]

IsBasic(ty) == ty.caps = <<>>

ElemType(ty) == [elem |-> ty.elem, caps |-> Tail(ty.caps)]

Capacity(ty) == Head(ty.caps)

\* second argument of impl_merkle_overlay_for_basic_type!
bit_size(t) ==
    CASE t = "bool" -> 8
      [] t = "u8" -> 8
      [] t = "u16" -> 16
      [] t = "u32" -> 32
      [] t = "u64" -> 64
      [] t = "u128" -> 128
      [] t = "U256" -> 256
      [] t = "usize" -> 8

\* std::mem::size_of::<T>() of the basic types
size_of(t) ==
    CASE t = "bool" -> 1
      [] t = "u8" -> 1
      [] t = "u16" -> 2
      [] t = "u32" -> 4
      [] t = "u64" -> 8
      [] t = "u128" -> 16
      [] t = "U256" -> 32
      [] t = "usize" -> 8

BYTES_PER_CHUNK == 32

as_u8(x) == x % 256

\* ---- nodes ----
Basic(ident, index, size, offset) ==
    [ident |-> ident, index |-> index, size |-> size, offset |-> offset]

Composite(ident, index, h) ==
    [kind |-> "Composite", ident |-> ident, index |-> index, height |-> h]

Intermediate(index) == [kind |-> "Intermediate", index |-> index]

Unattached(index) == [kind |-> "Unattached", index |-> index]

LeafBasic(bs) == [kind |-> "Basic", basics |-> bs]

LeafLength(b) == [kind |-> "Length", basic |-> b]

LeafPadding == [kind |-> "Padding"]

NoNode == [kind |-> "None"]

\* ---- generalized-index arithmetic (crate::tree_arithmetic) ----
RECURSIVE next_power_of_two_from(_, _)
next_power_of_two_from(p, n) ==
    IF p >= n THEN p ELSE next_power_of_two_from(2 * p, n)

next_power_of_two(n) == next_power_of_two_from(1, n)

RECURSIVE log_base_two(_)
log_base_two(p) == IF p <= 1 THEN 0 ELSE 1 + log_base_two(p \div 2)

depth_of(index) == log_base_two(index + 1)

relative_depth(a, b) == depth_of(b) - depth_of(a)

RECURSIVE root_from_depth(_, _)
root_from_depth(index, depth) ==
    IF depth <= 0 THEN index ELSE root_from_depth((index - 1) \div 2, depth - 1)

general_index_to_subtree(root, index) ==
    LET d == relative_depth(root, index)
    IN (index + 1) - ((root + 1) * (2 ^ d)) + (2 ^ d) - 1

\* ---- MerkleTreeOverlay ----
height(ty) ==
    IF IsBasic(ty) THEN 0
    ELSE LET num_leaves == next_power_of_two(Capacity(ty))
             data_tree_height == log_base_two(num_leaves)
         IN as_u8(as_u8(data_tree_height) + 1)

first_leaf(ty) ==
    IF IsBasic(ty) THEN 0 ELSE (2 ^ height(ty)) - 1

last_leaf(ty) ==
    IF IsBasic(ty) THEN 0
    ELSE (2 ^ height(ty)) + (2 ^ (height(ty) - 1)) - 2

\* mutant: the match arm for the type's root also catches index 1
basic_get_node_off_by_one(t, index) ==
    IF index <= 1
    THEN LeafBasic(<<Basic("", index, as_u8(bit_size(t) \div 32), 0)>>)
    ELSE Unattached(index)

basic_get_node(t, index) ==
    IF index = 0
    THEN LeafBasic(<<Basic("", index, as_u8(bit_size(t) \div 32), 0)>>)
    ELSE Unattached(index)

\* mutant: the length leaf is given the width of a u64 counter
length_leaf_u64(index) == LeafLength(Basic("len", index, 8, 0))

length_leaf(index) == LeafLength(Basic("len", index, 32, 0))

in_internal(ty, index) ==
    LET first_internal == 3
        last_internal == (2 ^ height(ty)) - 2
    IN first_internal <= index /\ index <= last_internal

\* mutant: the leaf range is taken one slot too far
in_leaves_one_more(ty, index) ==
    first_leaf(ty) <= index /\ index <= last_leaf(ty) + 1

in_leaves(ty, index) == first_leaf(ty) <= index /\ index <= last_leaf(ty)

\* mutant: the offset is the position in the chunk, not scaled by the size
packed_leaf_unscaled(ty, index) ==
    LET item_size == as_u8(size_of(ElemType(ty).elem))
        items_per_chunk == as_u8(BYTES_PER_CHUNK) \div item_size
    IN LeafBasic([k \in 1..items_per_chunk |->
            Basic(ToString((index - first_leaf(ty)) * items_per_chunk + (k - 1)),
                  index, item_size, as_u8(k - 1))])

packed_leaf(ty, index) ==
    LET item_size == as_u8(size_of(ElemType(ty).elem))
        items_per_chunk == as_u8(BYTES_PER_CHUNK) \div item_size
    IN LeafBasic([k \in 1..items_per_chunk |->
            Basic(ToString((index - first_leaf(ty)) * items_per_chunk + (k - 1)),
                  index, item_size, as_u8(as_u8(k - 1) * item_size))])

leaf_node(ty, node_type, index) ==
    IF node_type.kind = "Basic" THEN packed_leaf(ty, index)
    ELSE Composite(ToString(index - first_leaf(ty)), index, node_type.height)

\* mutant: the length leaf keeps the index of the element's own tree
replace_index_keep_length(n, index) ==
    CASE n.kind = "Composite" -> Composite(n.ident, index, n.height)
      [] n.kind = "Basic" ->
            LeafBasic([k \in DOMAIN n.basics |->
                [n.basics[k] EXCEPT !.index = index]])
      [] n.kind = "Length" -> LeafLength(Basic(n.basic.ident, n.basic.index, 32, 0))
      [] n.kind = "Padding" -> LeafPadding
      [] n.kind = "Unattached" -> Unattached(index)
      [] n.kind = "Intermediate" -> Intermediate(index)

replace_index(n, index) ==
    CASE n.kind = "Composite" -> Composite(n.ident, index, n.height)
      [] n.kind = "Basic" ->
            LeafBasic([k \in DOMAIN n.basics |->
                [n.basics[k] EXCEPT !.index = index]])
      [] n.kind = "Length" -> LeafLength(Basic(n.basic.ident, index, 32, 0))
      [] n.kind = "Padding" -> LeafPadding
      [] n.kind = "Unattached" -> Unattached(index)
      [] n.kind = "Intermediate" -> Intermediate(index)

RECURSIVE get_node(_, _)

\* mutant: the element type is asked about the global index
delegate_untranslated(ty, index) ==
    LET subtree_root ==
            root_from_depth(index, relative_depth(first_leaf(ty), index))
    IN IF in_leaves(ty, subtree_root)
       THEN replace_index(get_node(ElemType(ty), index), index)
       ELSE Unattached(index)

\* the final else branch of VariableList::get_node
delegate(ty, index) ==
    LET subtree_root ==
            root_from_depth(index, relative_depth(first_leaf(ty), index))
        subtree_index == general_index_to_subtree(subtree_root, index)
    IN IF in_leaves(ty, subtree_root)
       THEN replace_index(get_node(ElemType(ty), subtree_index), index)
       ELSE Unattached(index)

get_node(ty, index) ==
    IF IsBasic(ty) THEN basic_get_node(ty.elem, index)
    ELSE IF index = 0 THEN Composite("", 0, height(ty))
    ELSE IF index = 1 THEN Intermediate(index)
    ELSE IF index = 2 THEN length_leaf(index)
    ELSE IF in_internal(ty, index) THEN Intermediate(index)
    ELSE IF in_leaves(ty, index)
         THEN leaf_node(ty, get_node(ElemType(ty), 0), index)
    ELSE delegate(ty, index)

\* ---- the caller ----
VARIABLES ty, h, fl, ll, index, node

vars == <<ty, h, fl, ll, index, node>>

Unset == -1

Init ==
    /\ ty \in Types
    /\ h = Unset
    /\ fl = Unset
    /\ ll = Unset
    /\ index \in 0..MaxIndex
    /\ node = NoNode

Height ==
    /\ h' = height(ty)
    /\ UNCHANGED <<ty, fl, ll, index, node>>

FirstLeaf ==
    /\ fl' = first_leaf(ty)
    /\ UNCHANGED <<ty, h, ll, index, node>>

LastLeaf ==
    /\ ll' = last_leaf(ty)
    /\ UNCHANGED <<ty, h, fl, index, node>>

GetNode ==
    /\ node' = get_node(ty, index)
    /\ UNCHANGED <<ty, h, fl, ll, index>>

Next == Height \/ FirstLeaf \/ LastLeaf \/ GetNode

Spec == Init /\ [][Next]_vars

TypeOK ==
    /\ ty \in Types
    /\ index \in 0..MaxIndex
    /\ node.kind \in {"None", "Composite", "Intermediate", "Basic", "Length", "Unattached"}

\* ---- vocabulary of the properties ----
IsList(t) == ~IsBasic(t)

Called == node # NoNode

\* width of a scalar in bytes (bit width / 8)
ByteWidth(t) ==
    CASE t = "bool" -> 1
      [] t = "u8" -> 1
      [] t = "u16" -> 2
      [] t = "u32" -> 4
      [] t = "u64" -> 8
      [] t = "u128" -> 16
      [] t = "U256" -> 32
      [] t = "usize" -> 8

Parent(x) == (x - 1) \div 2

\* global index of the node at local position j of the subtree rooted at L
RECURSIVE GlobalIndex(_, _)
GlobalIndex(L, j) ==
    IF j = 0 THEN L
    ELSE LET p == GlobalIndex(L, Parent(j))
         IN IF j % 2 = 1 THEN 2 * p + 1 ELSE 2 * p + 2

\* local position of g in the subtree rooted at L, -1 when g is not in it
RECURSIVE LocalIndex(_, _)
LocalIndex(L, g) ==
    IF g = L THEN 0
    ELSE IF g < L THEN -1
    ELSE LET p == LocalIndex(L, Parent(g))
         IN IF p = -1 THEN -1 ELSE IF g % 2 = 1 THEN 2 * p + 1 ELSE 2 * p + 2

StrictDescendant(a, g) == LocalIndex(a, g) >= 1

DataLeaves(t) == first_leaf(t)..last_leaf(t)

SmallestPowerOfTwoAtLeast(n) ==
    CHOOSE p \in {2 ^ e : e \in 0..16} :
        p >= n /\ \A q \in {2 ^ e : e \in 0..16} : q >= n => p <= q

CeilDiv(a, b) == (a + b - 1) \div b

Max(a, b) == IF a >= b THEN a ELSE b

\* the positional tags a node carries
Tags(n) ==
    CASE n.kind \in {"Composite", "Intermediate", "Unattached"} -> {n.index}
      [] n.kind = "Length" -> {n.basic.index}
      [] n.kind = "Basic" -> {n.basics[k].index : k \in DOMAIN n.basics}
      [] OTHER -> {}

\* a node with every positional tag set to g and nothing else changed
Retag(n, g) ==
    CASE n.kind \in {"Composite", "Intermediate", "Unattached"} ->
            [n EXCEPT !.index = g]
      [] n.kind = "Length" -> [n EXCEPT !.basic.index = g]
      [] n.kind = "Basic" ->
            [n EXCEPT !.basics = [k \in DOMAIN n.basics |->
                                    [n.basics[k] EXCEPT !.index = g]]]
      [] OTHER -> n

\* deepest descendant of a list, as the leaf range gives it
RECURSIVE DeepestByLeaves(_)
DeepestByLeaves(t) ==
    IF IsBasic(ElemType(t)) THEN last_leaf(t)
    ELSE GlobalIndex(last_leaf(t), DeepestByLeaves(ElemType(t)))

\* deepest attached node of a list: the length leaf counts
RECURSIVE DeepestAttached(_)
DeepestAttached(t) ==
    IF IsBasic(ElemType(t)) THEN Max(last_leaf(t), 2)
    ELSE GlobalIndex(last_leaf(t), DeepestAttached(ElemType(t)))

\* ---- properties ----

\* C1: for every primitive scalar type get_node(0) is a Leaf::Basic with one
\* descriptor of ident "", index 0, offset 0 and size the byte width.
C1_ScalarRootDescriptor ==
    (IsBasic(ty) /\ Called /\ index = 0) =>
        node = LeafBasic(<<Basic("", 0, ByteWidth(ty.elem), 0)>>)

\* C2: for every list type and index i, every positional tag of the node
\* returned by get_node(i) equals i, also after delegation to the element.
C2_TagIsQueriedIndex ==
    (IsList(ty) /\ Called) => (Tags(node) = {index})

C2_Witness ==
    /\ Len(ty.caps) = 2
    /\ Called
    /\ index > last_leaf(ty)
    /\ index > 2
    /\ node.kind = "Length"
    /\ node.basic.index = index

\* C3: the number of data leaves last_leaf - first_leaf + 1 is
\* next_power_of_two(N) for one element per chunk, and the number of chunks
\* next_power_of_two(ceil(N/k)) when k = 32/size elements share a chunk.
C3_LeafCountFollowsPacking ==
    (IsList(ty) /\ fl # Unset /\ ll # Unset) =>
        LET k == IF IsBasic(ElemType(ty))
                 THEN 32 \div ByteWidth(ty.elem) ELSE 1
        IN ll - fl + 1 = SmallestPowerOfTwoAtLeast(CeilDiv(Capacity(ty), k))

\* C4: in a list of capacity >= 2 of scalars of width s, a data leaf i holds
\* 32/s descriptors, the j-th with ident (i - first_leaf)*(32/s) + j as text,
\* index i, size s and offset j*s.
C4_PackedDescriptors ==
    (/\ IsList(ty)
     /\ IsBasic(ElemType(ty))
     /\ Capacity(ty) >= 2
     /\ Called
     /\ index \in DataLeaves(ty)) =>
        LET s == ByteWidth(ty.elem)
            k == 32 \div s
        IN /\ node.kind = "Basic"
           /\ Len(node.basics) = k
           /\ \A j \in 0..(k - 1) :
                node.basics[j + 1] =
                    Basic(ToString((index - first_leaf(ty)) * k + j),
                          index, s, j * s)

C4_Witness ==
    /\ ty.elem = "u16"
    /\ ty.caps = <<3>>
    /\ Called
    /\ index = last_leaf(ty)
    /\ Len(node.basics) = 16
    /\ node.basics[16].offset = 30

\* C5 (as stated): every index greater than the deepest descendant, taken
\* from last_leaf through every nesting level, resolves to Unattached.
C5_BeyondLastLeafUnattached ==
    (IsList(ty) /\ Called /\ index > DeepestByLeaves(ty)) =>
        node = Unattached(index)

\* C5 (amended): every index greater than the deepest attached node, which
\* for a list of scalars is the larger of last_leaf and the length leaf 2,
\* resolves to Unattached.
C5_BeyondDeepestUnattached ==
    (IsList(ty) /\ Called /\ index > DeepestAttached(ty)) =>
        node = Unattached(index)

C5_Witness ==
    /\ Len(ty.caps) = 2
    /\ ty.caps[2] <= 1
    /\ Called
    /\ index > DeepestAttached(ty)
    /\ StrictDescendant(last_leaf(ty), index)
    /\ node = Unattached(index)

\* C6: get_node(2) is the length leaf of every list, and the right child
\* 2L+2 of every data leaf L of a list of lists is a length leaf too.
C6_LengthLeafAtEveryLevel ==
    (IsList(ty) /\ Called) =>
        /\ index = 2 => node = LeafLength(Basic("len", 2, 32, 0))
        /\ (/\ IsList(ElemType(ty))
            /\ \E L \in DataLeaves(ty) : index = 2 * L + 2) =>
                node = LeafLength(Basic("len", index, 32, 0))

C6_Witness ==
    /\ Len(ty.caps) = 2
    /\ Called
    /\ index = 2 * last_leaf(ty) + 2
    /\ node.kind = "Length"

\* C7: a scalar has height 0 and leaf range [0, 0], every index other than
\* 0 is Unattached, and so is every strict descendant of a data leaf of a
\* list of scalars.
C7_ScalarHasNoSubstructure ==
    /\ IsBasic(ty) =>
        /\ h # Unset => h = 0
        /\ fl # Unset => fl = 0
        /\ ll # Unset => ll = 0
        /\ (Called /\ index # 0) => node = Unattached(index)
    /\ (/\ IsList(ty)
        /\ IsBasic(ElemType(ty))
        /\ Called
        /\ \E L \in DataLeaves(ty) : StrictDescendant(L, index)) =>
            node = Unattached(index)

C7_Witness ==
    /\ IsBasic(ty)
    /\ h = 0
    /\ fl = 0
    /\ ll = 0
    /\ index = 1
    /\ node = Unattached(1)

\* C8: for every capacity N >= 1, every index in [first_leaf, last_leaf] is
\* a data leaf: a Leaf::Basic for a scalar element, and for a list element
\* the Composite with ident i - first_leaf, index i and the element's height.
C8_LeafRangeIsDataLeaves ==
    (/\ IsList(ty)
     /\ Capacity(ty) >= 1
     /\ Called
     /\ index \in DataLeaves(ty)) =>
        IF IsBasic(ElemType(ty))
        THEN node.kind = "Basic"
        ELSE node = Composite(ToString(index - first_leaf(ty)), index,
                              height(ElemType(ty)))

\* C9: for capacity >= 2, a data leaf L and the node g at local position
\* j >= 1 below L, the leaf is recovered from g, g translates to j, and
\* get_node(g) is the element's get_node(j) with only the tag set to g.
C9_DelegationAgreesWithElement ==
    (IsList(ty) /\ Capacity(ty) >= 2 /\ Called) =>
        \A L \in DataLeaves(ty) :
            LET j == LocalIndex(L, index)
            IN j >= 1 =>
                /\ GlobalIndex(L, j) = index
                /\ root_from_depth(index,
                       relative_depth(first_leaf(ty), index)) = L
                /\ general_index_to_subtree(L, index) = j
                /\ node = Retag(get_node(ElemType(ty), j), index)

C9_Witness ==
    /\ Len(ty.caps) = 2
    /\ Capacity(ty) >= 2
    /\ Called
    /\ LocalIndex(last_leaf(ty), index) >= 3
    /\ node.kind = "Basic"
    /\ Len(node.basics) > 1

\* C10: every strict descendant of the length leaf 2 is Unattached.
C10_RightHalfUnattached ==
    (IsList(ty) /\ Called /\ StrictDescendant(2, index)) =>
        node = Unattached(index)

====
